---------------------------- MODULE Spec2Model ----------------------------
(***************************************************************************)
(* A model of AssetRipper's backend (src/server.py): the URL resolver, the *)
(* asset-type classifier, the HTML asset scanner, the library detector and *)
(* the two request handlers that fetch several assets (extract, download). *)
(*                                                                         *)
(* Python strings are TLA+ strings; TLC evaluates Len, \o, SubSeq on them. *)
(***************************************************************************)
EXTENDS Integers, Sequences, FiniteSets, TLC

VARIABLES
    pc,             \* position of the running handler / function
    args,           \* arguments of the pure function under check
    ret,            \* its return value
    html,           \* raw text of the document being scanned
    soup,           \* the parsed document: its elements in document order
    base_url,       \* base location of the scan
    assets,         \* parse_assets_from_html: the list being built
    seen,           \* parse_assets_from_html: URLs already inserted
    request,        \* the JSON body of the request being served
    libraries,      \* extract: detect_libraries' result
    todo,           \* the assets the fetch loops still have to visit
    fetch_log,      \* the calls made to fetch_url, in order, and how each ended
    results,        \* download_file: the results list
    files,          \* download_file: the files written, path -> text
    response        \* the handler's response

vars == <<pc, args, ret, html, soup, base_url, assets, seen, request,
          libraries, todo, fetch_log, results, files, response>>

funVars == <<args, ret>>
scanVars == <<html, soup, base_url, assets, seen>>
flowVars == <<request, libraries, todo, fetch_log, results, files, response>>

-----------------------------------------------------------------------------
(* Python values *)

\* Python's None, where a string is expected (no URL is this string).
None == "<None>"

\* Truthiness of an optional string: None and '' are falsy.
Truthy(s) == s # None /\ s # ""

Whitespace == {" ", "\t", "\n", "\r"}

UpperLetters == "ABCDEFGHIJKLMNOPQRSTUVWXYZ"
LowerLetters == "abcdefghijklmnopqrstuvwxyz"
Digits == "0123456789"

Char(s, i) == SubSeq(s, i, i)

CharsOf(s) == {Char(s, i) : i \in 1..Len(s)}

LowerOf == [c \in CharsOf(UpperLetters) |->
               Char(LowerLetters, CHOOSE i \in 1..Len(UpperLetters) : Char(UpperLetters, i) = c)]

RECURSIVE Lower(_)
\* str.lower()
Lower(s) ==
    IF Len(s) = 0 THEN ""
    ELSE IF Len(s) = 1 THEN (IF s \in DOMAIN LowerOf THEN LowerOf[s] ELSE s)
    ELSE Lower(SubSeq(s, 1, Len(s) \div 2)) \o Lower(SubSeq(s, (Len(s) \div 2) + 1, Len(s)))

\* str.lstrip(): from the first character that is not whitespace
LStrip(s) ==
    LET keep == {i \in 1..Len(s) : Char(s, i) \notin Whitespace}
    IN  IF keep = {} THEN ""
        ELSE SubSeq(s, CHOOSE i \in keep : \A j \in keep : i <= j, Len(s))

\* str.rstrip(): up to the last character that is not whitespace
RStrip(s) ==
    LET keep == {i \in 1..Len(s) : Char(s, i) \notin Whitespace}
    IN  IF keep = {} THEN ""
        ELSE SubSeq(s, 1, CHOOSE i \in keep : \A j \in keep : i >= j)

\* str.strip()
Strip(s) == RStrip(LStrip(s))

\* str.startswith(p) / str.endswith(p)
StartsWith(s, p) == Len(s) >= Len(p) /\ SubSeq(s, 1, Len(p)) = p
EndsWith(s, p) == Len(s) >= Len(p) /\ SubSeq(s, Len(s) - Len(p) + 1, Len(s)) = p

\* p in s
Contains(s, p) ==
    \E i \in 1..(Len(s) - Len(p) + 1) : SubSeq(s, i, i + Len(p) - 1) = p

\* Index of the first occurrence of the one-character string c in s, 0 if none.
Find(s, c) ==
    IF \E i \in 1..Len(s) : Char(s, i) = c
    THEN CHOOSE i \in 1..Len(s) :
            Char(s, i) = c /\ \A j \in 1..(i - 1) : Char(s, j) # c
    ELSE 0

\* Index of the last occurrence of c in s, 0 if none.
RFind(s, c) ==
    IF \E i \in 1..Len(s) : Char(s, i) = c
    THEN CHOOSE i \in 1..Len(s) :
            Char(s, i) = c /\ \A j \in (i + 1)..Len(s) : Char(s, j) # c
    ELSE 0

\* s.split(c)[0]
SplitFirst(s, c) == IF Find(s, c) = 0 THEN s ELSE SubSeq(s, 1, Find(s, c) - 1)

\* s.split(c)[-1]
SplitLast(s, c) == SubSeq(s, RFind(s, c) + 1, Len(s))

RECURSIVE Repeat(_, _)
\* s * n
Repeat(s, n) == IF n <= 0 THEN "" ELSE s \o Repeat(s, n - 1)

RECURSIVE SeqSum(_)
SeqSum(q) == IF q = <<>> THEN 0 ELSE Head(q) + SeqSum(Tail(q))

RECURSIVE Flatten(_)
\* The concatenation of a sequence of sequences.
Flatten(qq) == IF qq = <<>> THEN <<>> ELSE Head(qq) \o Flatten(Tail(qq))

Min(a, b) == IF a <= b THEN a ELSE b

\* The indices of q, in order, at which q's element is in the set S.
RECURSIVE IndicesIn(_, _, _)
IndicesIn(q, S, i) ==
    IF i > Len(q) THEN <<>>
    ELSE (IF q[i] \in S THEN <<i>> ELSE <<>>) \o IndicesIn(q, S, i + 1)

\* d.get(k, default) for a dict d
DictGet(d, k, default) == IF k \in DOMAIN d THEN d[k] ELSE default

\* d.update(extra): extra's keys win
Update(d, extra) ==
    [k \in DOMAIN d \cup DOMAIN extra |->
        IF k \in DOMAIN extra THEN extra[k] ELSE d[k]]

\* s.split(c) for a one-character separator
RECURSIVE Split(_, _)
Split(s, c) ==
    IF Find(s, c) = 0 THEN <<s>>
    ELSE <<SubSeq(s, 1, Find(s, c) - 1)>> \o Split(SubSeq(s, Find(s, c) + 1, Len(s)), c)

\* First index >= j of s holding a character of the set Stop, Len(s)+1 if none.
RunEnd(s, j, Stop) ==
    CHOOSE e \in j..(Len(s) + 1) :
        /\ e = Len(s) + 1 \/ Char(s, e) \in Stop
        /\ \A k \in j..(e - 1) : Char(s, k) \notin Stop

\* s.split(): the whitespace-separated tokens; only the first is used.
FirstToken(part) ==
    LET t == Strip(part) IN SubSeq(t, 1, RunEnd(t, 1, Whitespace) - 1)

\* All sequences over S of length at most n.
SeqsUpTo(S, n) == UNION {[1..k -> S] : k \in 0..n}

-----------------------------------------------------------------------------
(* urllib.parse.urljoin, for a base of the form scheme://host/path and a   *)
(* reference without dot segments                                          *)

SchemeChars == CharsOf(UpperLetters) \cup CharsOf(LowerLetters)
                   \cup CharsOf(Digits) \cup {"+", "-", "."}

\* The reference names a scheme of its own: letters up to a ':'.
HasScheme(url) ==
    LET i == Find(url, ":")
    IN  /\ i > 1
        /\ \A j \in 1..(i - 1) : Char(url, j) \in SchemeChars
        /\ Char(url, 1) \notin CharsOf(Digits) \cup {"+", "-", "."}

Scheme(base) == SubSeq(base, 1, Find(base, ":") - 1)

\* scheme://host of the base
Origin(base) ==
    LET rest == SubSeq(base, Len(Scheme(base)) + 4, Len(base))
        h    == SplitFirst(SplitFirst(SplitFirst(rest, "/"), "?"), "#")
    IN  Scheme(base) \o "://" \o h

\* The base without its query and fragment.
BasePath(base) == SplitFirst(SplitFirst(base, "#"), "?")

\* The base up to and including the last '/' of its path.
BaseDir(base) ==
    LET p == BasePath(base)
    IN  IF Len(p) = Len(Origin(base)) THEN p \o "/"
        ELSE SubSeq(p, 1, RFind(p, "/"))

urljoin(base, url) ==
    IF base = "" THEN url
    ELSE IF url = "" THEN base
    ELSE IF HasScheme(url) THEN url
    ELSE IF StartsWith(url, "//") THEN Scheme(base) \o ":" \o url
    ELSE IF StartsWith(url, "/") THEN Origin(base) \o url
    ELSE IF StartsWith(url, "?") THEN BasePath(base) \o url
    ELSE BaseDir(base) \o url

-----------------------------------------------------------------------------
(* resolve_url *)

Rejected == <<"data:", "javascript:", "#", "mailto:">>

resolve_url(href, base) ==
    IF ~Truthy(href) THEN None
    ELSE LET h == Strip(href)
         IN  IF \E i \in 1..Len(Rejected) : StartsWith(h, Rejected[i]) THEN None
             ELSE urljoin(base, h)

-----------------------------------------------------------------------------
(* get_asset_type *)

JsExt == <<".js", ".mjs", ".cjs">>
ImgExt == <<".png", ".jpg", ".jpeg", ".gif", ".svg", ".webp", ".ico", ".avif", ".bmp">>
FontExt == <<".woff", ".woff2", ".ttf", ".otf", ".eot">>
HtmlExt == <<".html", ".htm">>

\* s.endswith(tuple) / any(s.endswith(ext) for ext in tuple)
EndsWithAny(s, exts) == \E i \in 1..Len(exts) : EndsWith(s, exts[i])

get_asset_type(url, content_type) ==
    LET url_lower == SplitFirst(Lower(url), "?")
        ct        == Lower(content_type)
    IN  IF Contains(ct, "javascript") \/ EndsWithAny(url_lower, JsExt) THEN "js"
        ELSE IF Contains(ct, "css") \/ EndsWith(url_lower, ".css") THEN "css"
        ELSE IF EndsWithAny(url_lower, ImgExt) THEN "img"
        ELSE IF Contains(ct, "image") THEN "img"
        ELSE IF EndsWithAny(url_lower, FontExt) THEN "font"
        ELSE IF Contains(ct, "font") THEN "font"
        ELSE IF EndsWithAny(url_lower, HtmlExt) \/ Contains(ct, "html") THEN "html"
        ELSE IF EndsWith(url_lower, ".json") THEN "json"
        ELSE "other"

-----------------------------------------------------------------------------
(* The parsed document (BeautifulSoup).  An element is a record            *)
(* [tag, attrs, text]: attrs is a dict from attribute names to values (rel *)
(* is multi-valued: a list of tokens), text is get_text().  soup is the    *)
(* sequence of the document's elements in document order.                  *)

\* el.get(name)
Attr(el, name) == DictGet(el.attrs, name, None)

\* el.has_attr(name)
HasAttr(el, name) == name \in DOMAIN el.attrs

\* r and tok in r, for the multi-valued attribute rel
RelHas(el, tok) ==
    /\ HasAttr(el, "rel")
    /\ \E i \in 1..Len(el.attrs["rel"]) : el.attrs["rel"][i] = tok

\* soup.find_all(tag): the matching elements in document order
RECURSIVE FindAll(_, _)
FindAll(els, tag) ==
    IF els = <<>> THEN <<>>
    ELSE (IF Head(els).tag = tag THEN <<Head(els)>> ELSE <<>>) \o FindAll(Tail(els), tag)

\* The elements of els that carry the attribute name.
RECURSIVE WithAttr(_, _)
WithAttr(els, name) ==
    IF els = <<>> THEN <<>>
    ELSE (IF HasAttr(Head(els), name) THEN <<Head(els)>> ELSE <<>>)
             \o WithAttr(Tail(els), name)

\* The elements of els that do not carry the attribute name.
RECURSIVE WithoutAttr(_, _)
WithoutAttr(els, name) ==
    IF els = <<>> THEN <<>>
    ELSE (IF HasAttr(Head(els), name) THEN <<>> ELSE <<Head(els)>>)
             \o WithoutAttr(Tail(els), name)

(* re.finditer(r'url\(["\']?([^"\')\s]+)["\']?\)', s): group(1) of each     *)
(* match, left to right.  The optional quotes and the run are greedy and   *)
(* no shorter choice can match, so the match at a position is unique.      *)
Quotes == {"\"", "'"}
UrlStop == Quotes \cup {")"} \cup Whitespace

\* Index of the first "url(" of s at or after i, 0 if none.
NextUrl(s, i) ==
    LET at == {p \in i..(Len(s) - 3) : SubSeq(s, p, p + 3) = "url("}
    IN  IF at = {} THEN 0 ELSE CHOOSE p \in at : \A q \in at : p <= q

RECURSIVE UrlRefsFrom(_, _)
UrlRefsFrom(s, i) ==
    LET p == NextUrl(s, i)
    IN  IF p = 0 THEN <<>>
        ELSE LET j0 == p + 4
                 j  == IF j0 <= Len(s) /\ Char(s, j0) \in Quotes THEN j0 + 1 ELSE j0
                 e  == IF j > Len(s) THEN j ELSE RunEnd(s, j, UrlStop)
                 k  == IF e <= Len(s) /\ Char(s, e) \in Quotes THEN e + 1 ELSE e
             IN  IF e > j /\ k <= Len(s) /\ Char(s, k) = ")"
                 THEN <<SubSeq(s, j, e - 1)>> \o UrlRefsFrom(s, k + 1)
                 ELSE UrlRefsFrom(s, p + 1)

-----------------------------------------------------------------------------
(* parse_assets_from_html.  Each rule of the scan is the sequence of calls *)
(* it makes, in order, on the shared list: add(url, type_, tag, extra) or  *)
(* assets.append(record); no rule reads the list, so a rule's calls are a  *)
(* function of the document alone.                                         *)

NoExtra == <<>>

AddCall(url, type_, tag, extra) ==
    [fn |-> "add", url |-> url, type_ |-> type_, tag |-> tag, extra |-> extra]

AppendCall(rec) == [fn |-> "append", rec |-> rec]

\* add() without the seen test
add_no_dedup(st, url, type_, tag, extra) ==
    IF ~Truthy(url) THEN st
    ELSE [assets |-> Append(st.assets,
                        Update([url |-> url, type |-> type_, tag |-> tag, inline |-> FALSE],
                               extra)),
          seen |-> st.seen \cup {url}]

\* add() where a later discovery replaces the record of an earlier one
add_last_wins(st, url, type_, tag, extra) ==
    IF ~Truthy(url) THEN st
    ELSE LET a == Update([url |-> url, type |-> type_, tag |-> tag, inline |-> FALSE], extra)
         IN  IF url \in st.seen
             THEN [assets |-> [i \in 1..Len(st.assets) |->
                                  IF st.assets[i].url = url THEN a ELSE st.assets[i]],
                   seen |-> st.seen]
             ELSE [assets |-> Append(st.assets, a), seen |-> st.seen \cup {url}]

\* The nested function add(url, type_, tag, extra=None); st is <<assets, seen>>.
add(st, url, type_, tag, extra) ==
    IF ~Truthy(url) \/ url \in st.seen THEN st
    ELSE [assets |-> Append(st.assets,
                        Update([url |-> url, type |-> type_, tag |-> tag, inline |-> FALSE],
                               extra)),
          seen |-> st.seen \cup {url}]

\* The effect of a rule's calls on the list.
RECURSIVE Run(_, _)
Run(st, calls) ==
    IF calls = <<>> THEN st
    ELSE LET c == Head(calls)
         IN  Run(IF c.fn = "add" THEN add(st, c.url, c.type_, c.tag, c.extra)
                 ELSE [assets |-> Append(st.assets, c.rec), seen |-> st.seen],
                 Tail(calls))

\* 'font' or 'img' by the extension of a url() reference
ExtType(u) ==
    LET ext == SplitLast(SplitFirst(Lower(u), "?"), ".")
    IN  IF ext \in {"woff", "woff2", "ttf", "otf", "eot"} THEN "font" ELSE "img"

DigitsOf(n) == IF n < 10 THEN Char(Digits, n + 1)
               ELSE Char(Digits, (n \div 10) + 1) \o Char(Digits, (n % 10) + 1)

\* for el in soup.find_all('link', rel=lambda r: r and 'stylesheet' in r)
StylesheetCalls(els, base) ==
    LET found == FindAll(els, "link")
        Body(el) ==
            IF RelHas(el, "stylesheet")
            THEN <<AddCall(resolve_url(Attr(el, "href"), base), "css",
                           "link[rel=stylesheet]", NoExtra)>>
            ELSE <<>>
    IN  Flatten([i \in 1..Len(found) |-> Body(found[i])])

\* for el in soup.find_all('link', href=True): if '.css' in href
CssHrefCalls(els, base) ==
    LET found == WithAttr(FindAll(els, "link"), "href")
        Body(el) ==
            IF Contains(el.attrs["href"], ".css")
            THEN <<AddCall(resolve_url(el.attrs["href"], base), "css",
                           "link[href*.css]", NoExtra)>>
            ELSE <<>>
    IN  Flatten([i \in 1..Len(found) |-> Body(found[i])])

\* The url() references of a CSS text, typed by extension.
CssUrlCalls(text, base, tag) ==
    LET refs == UrlRefsFrom(text, 1)
        Body(ref) ==
            LET u == resolve_url(ref, base)
            IN  IF Truthy(u) THEN <<AddCall(u, ExtType(u), tag, NoExtra)>> ELSE <<>>
    IN  Flatten([i \in 1..Len(refs) |-> Body(refs[i])])

\* for i, el in enumerate(soup.find_all('style'))
InlineStyleCalls(els, base) ==
    LET found == FindAll(els, "style")
        Body(el, i) ==
            LET content == el.text
            IN  IF Strip(content) # ""
                THEN <<AppendCall([url |-> "inline-style-" \o DigitsOf(i + 1),
                                   type |-> "css", tag |-> "<style> inline",
                                   inline |-> TRUE, content |-> content,
                                   size |-> Len(content)])>>
                        \o CssUrlCalls(content, base, "css url()")
                ELSE <<>>
    IN  Flatten([i \in 1..Len(found) |-> Body(found[i], i - 1)])

\* for el in soup.find_all('script', src=True)
ScriptSrcCalls(els, base) ==
    LET found == WithAttr(FindAll(els, "script"), "src")
        Body(el) ==
            <<AddCall(resolve_url(Attr(el, "src"), base), "js", "script[src]",
                      [async |-> HasAttr(el, "async"),
                       defer |-> HasAttr(el, "defer"),
                       type  |-> DictGet(el.attrs, "type", "")])>>
    IN  Flatten([i \in 1..Len(found) |-> Body(found[i])])

\* Inline scripts are kept when longer than this.
MinInlineScript == 20
\* Inline script content is cut to this length.
InlineScriptCap == 10000

\* for i, el in enumerate(soup.find_all('script', src=False))
InlineScriptCalls(els, base) ==
    LET found == WithoutAttr(FindAll(els, "script"), "src")
        Body(el, i) ==
            LET content == el.text
            IN  IF Strip(content) # "" /\ Len(content) > MinInlineScript
                THEN <<AppendCall([url |-> "inline-script-" \o DigitsOf(i + 1),
                                   type |-> "js", tag |-> "<script> inline",
                                   inline |-> TRUE,
                                   content |-> SubSeq(content, 1, Min(Len(content), InlineScriptCap)),
                                   size |-> Len(content)])>>
                ELSE <<>>
    IN  Flatten([i \in 1..Len(found) |-> Body(found[i], i - 1)])

\* for el in soup.find_all('img'): src, then each srcset candidate
ImgCalls(els, base) ==
    LET found == FindAll(els, "img")
        SrcsetBody(part) ==
            <<AddCall(IF Strip(part) # "" THEN resolve_url(FirstToken(part), base) ELSE None,
                      "img", "img[srcset]", NoExtra)>>
        Body(el) ==
            LET parts == Split(DictGet(el.attrs, "srcset", ""), ",")
            IN  <<AddCall(resolve_url(Attr(el, "src"), base), "img", "img[src]",
                          [alt |-> DictGet(el.attrs, "alt", "")])>>
                    \o Flatten([k \in 1..Len(parts) |-> SrcsetBody(parts[k])])
    IN  Flatten([i \in 1..Len(found) |-> Body(found[i])])

LazyAttrs == <<"data-src", "data-lazy", "data-original", "data-url">>

\* for el in soup.find_all(True): background, then the lazy-load attributes
BackgroundLazyCalls(els, base) ==
    LET LazyBody(el, attr) ==
            LET v == Attr(el, attr)
            IN  IF Truthy(v) /\ Contains(v, ".")
                THEN <<AddCall(resolve_url(v, base), "img", attr \o " (lazy)", NoExtra)>>
                ELSE <<>>
        Body(el) ==
            (IF Truthy(Attr(el, "background"))
             THEN <<AddCall(resolve_url(Attr(el, "background"), base), "img",
                            "background attr", NoExtra)>>
             ELSE <<>>)
                \o Flatten([k \in 1..Len(LazyAttrs) |-> LazyBody(el, LazyAttrs[k])])
    IN  Flatten([i \in 1..Len(els) |-> Body(els[i])])

\* for el in soup.find_all(style=True): every url() of the style attribute
StyleAttrCalls(els, base) ==
    LET found == WithAttr(els, "style")
        Body(el) ==
            LET refs == UrlRefsFrom(el.attrs["style"], 1)
            IN  [k \in 1..Len(refs) |->
                    AddCall(resolve_url(refs[k], base), "img", "style attr url()", NoExtra)]
    IN  Flatten([i \in 1..Len(found) |-> Body(found[i])])

\* for m in re.finditer(..., html): the sweep of the raw text
HtmlUrlCalls(text, base) == CssUrlCalls(text, base, "html url()")

FontHints == <<".woff", ".ttf", ".otf", ".eot">>

\* for el in soup.find_all('link', href=True): 'font' or a font extension in href
FontLinkCalls(els, base) ==
    LET found == WithAttr(FindAll(els, "link"), "href")
        Body(el) ==
            LET href == Lower(el.attrs["href"])
            IN  IF Contains(href, "font")
                   \/ \E k \in 1..Len(FontHints) : Contains(href, FontHints[k])
                THEN <<AddCall(resolve_url(el.attrs["href"], base), "font",
                               "link[font]", NoExtra)>>
                ELSE <<>>
    IN  Flatten([i \in 1..Len(found) |-> Body(found[i])])

\* re.compile(r'fonts\.(googleapis|gstatic)\.com').search(href)
IsGoogleFontsHref(href) ==
    Contains(href, "fonts.googleapis.com") \/ Contains(href, "fonts.gstatic.com")

\* for el in soup.find_all('link', href=re.compile(...))
GoogleFontsCalls(els, base) ==
    LET found == WithAttr(FindAll(els, "link"), "href")
        Body(el) ==
            IF IsGoogleFontsHref(el.attrs["href"])
            THEN <<AddCall(resolve_url(Attr(el, "href"), base), "font",
                           "Google Fonts", NoExtra)>>
            ELSE <<>>
    IN  Flatten([i \in 1..Len(found) |-> Body(found[i])])

\* for el in soup.find_all('link', rel=lambda r: r and ('icon' in r or 'shortcut' in r))
FaviconCalls(els, base) ==
    LET found == FindAll(els, "link")
        Body(el) ==
            IF RelHas(el, "icon") \/ RelHas(el, "shortcut")
            THEN <<AddCall(resolve_url(Attr(el, "href"), base), "img", "favicon", NoExtra)>>
            ELSE <<>>
    IN  Flatten([i \in 1..Len(found) |-> Body(found[i])])

\* og_img = soup.find('meta', property='og:image'): the first such element
OgImageCalls(els, base) ==
    LET metas == FindAll(els, "meta")
        found == IndicesIn([i \in 1..Len(metas) |-> Attr(metas[i], "property")],
                           {"og:image"}, 1)
    IN  IF found = <<>> THEN <<>>
        ELSE <<AddCall(resolve_url(Attr(metas[Head(found)], "content"), base),
                       "img", "og:image", NoExtra)>>

\* type_map.get(as_type, 'other')
PreloadType(as_type) ==
    CASE as_type = "script" -> "js"
      [] as_type = "style"  -> "css"
      [] as_type = "image"  -> "img"
      [] as_type = "font"   -> "font"
      [] OTHER              -> "other"

\* for el in soup.find_all('link', rel='preload')
PreloadCalls(els, base) ==
    LET found == FindAll(els, "link")
        Body(el) ==
            IF RelHas(el, "preload")
            THEN <<AddCall(resolve_url(Attr(el, "href"), base),
                           PreloadType(DictGet(el.attrs, "as", "other")),
                           "link[preload]", NoExtra)>>
            ELSE <<>>
    IN  Flatten([i \in 1..Len(found) |-> Body(found[i])])

\* The rules in the order the function runs them.
RuleNames == <<"stylesheet", "css_href", "inline_style", "script_src", "inline_script",
               "img", "background_lazy", "style_attr", "html_url", "font_link",
               "google_fonts", "favicon", "og_image", "preload">>

RuleCalls(rule, text, els, base) ==
    CASE rule = "stylesheet"      -> StylesheetCalls(els, base)
      [] rule = "css_href"        -> CssHrefCalls(els, base)
      [] rule = "inline_style"    -> InlineStyleCalls(els, base)
      [] rule = "script_src"      -> ScriptSrcCalls(els, base)
      [] rule = "inline_script"   -> InlineScriptCalls(els, base)
      [] rule = "img"             -> ImgCalls(els, base)
      [] rule = "background_lazy" -> BackgroundLazyCalls(els, base)
      [] rule = "style_attr"      -> StyleAttrCalls(els, base)
      [] rule = "html_url"        -> HtmlUrlCalls(text, base)
      [] rule = "font_link"       -> FontLinkCalls(els, base)
      [] rule = "google_fonts"    -> GoogleFontsCalls(els, base)
      [] rule = "favicon"         -> FaviconCalls(els, base)
      [] rule = "og_image"        -> OgImageCalls(els, base)
      [] rule = "preload"         -> PreloadCalls(els, base)

\* parse_assets_from_html(html, base_url), start to return
RECURSIVE RunRules(_, _, _, _, _)
RunRules(st, k, text, els, base) ==
    IF k > Len(RuleNames) THEN st
    ELSE RunRules(Run(st, RuleCalls(RuleNames[k], text, els, base)), k + 1, text, els, base)

parse_assets_from_html(text, els, base) ==
    RunRules([assets |-> <<>>, seen |-> {}], 1, text, els, base).assets

-----------------------------------------------------------------------------
(* The raw text of a document: BeautifulSoup(html, 'html.parser') reads    *)
(* the text Render(els) back as the elements els.                          *)

AttrOrder == <<"rel", "as", "href", "src", "type", "async", "defer", "srcset", "alt",
               "background", "data-src", "style", "property", "content">>

VoidTags == {"link", "img", "meta"}

RECURSIVE Join(_, _)
\* sep.join(q)
Join(q, sep) ==
    IF q = <<>> THEN ""
    ELSE IF Len(q) = 1 THEN q[1]
    ELSE q[1] \o sep \o Join(Tail(q), sep)

RenderAttr(el, name) ==
    IF ~HasAttr(el, name) THEN ""
    ELSE IF name = "rel" THEN " rel=\"" \o Join(el.attrs[name], " ") \o "\""
    ELSE IF name \in {"async", "defer"} THEN " " \o name
    ELSE " " \o name \o "=\"" \o el.attrs[name] \o "\""

RenderElement(el) ==
    "<" \o el.tag \o Join([k \in 1..Len(AttrOrder) |-> RenderAttr(el, AttrOrder[k])], "")
        \o ">" \o (IF el.tag \in VoidTags THEN "" ELSE el.text \o "</" \o el.tag \o ">")

Render(els) == Join([i \in 1..Len(els) |-> RenderElement(els[i])], "")

Element(tag, attrs, text) == [tag |-> tag, attrs |-> attrs, text |-> text]

\* The elements documents are built from: one or more for every rule of the
\* scan, several of them naming the same resource.
LinkStylesheet  == Element("link", ("rel" :> <<"stylesheet">>) @@ ("href" :> "/a.css"), "")
ScriptJquery    == Element("script", ("src" :> "//cdn.example.com/jquery.min.js"), "")
LinkGoogleCss   == Element("link", ("href" :> "https://fonts.googleapis.com/css2?family=Inter"), "")
LinkGstatic     == Element("link", ("rel" :> <<"preload">>) @@ ("as" :> "font")
                              @@ ("href" :> "https://fonts.gstatic.com/s/inter.woff2"), "")
StyleBackground == Element("style", <<>>, "body{background:url('/bg.png')}")
StyleFontFace   == Element("style", <<>>, "@font-face{src:url(\"f.woff2?v=1\")}")
ImgSrcset       == Element("img", ("src" :> "/bg.png") @@ ("srcset" :> "/a.png 1x, /b.png 2x")
                              @@ ("alt" :> "bg"), "")
ImgLazy         == Element("img", ("data-src" :> "photo.jpg"), "")
ImgLazyNoDot    == Element("img", ("data-src" :> "x") @@ ("src" :> " "), "")
DivBackground   == Element("div", ("background" :> "/a.png")
                              @@ ("style" :> "background:url(/b.png)"), "")
LinkFavicon     == Element("link", ("rel" :> <<"shortcut", "icon">>) @@ ("href" :> "/bg.png"), "")
MetaOgImage     == Element("meta", ("property" :> "og:image") @@ ("content" :> "/a.png"), "")
LinkPreloadJs   == Element("link", ("rel" :> <<"preload">>) @@ ("as" :> "script")
                              @@ ("href" :> "/app.js"), "")
ScriptModule    == Element("script", ("src" :> "/app.js") @@ ("type" :> "module")
                              @@ ("defer" :> ""), "")
ScriptInline    == Element("script", <<>>, "window.dataLayer=[];gtag('js');")
LinkJavascript  == Element("link", ("rel" :> <<"stylesheet">>) @@ ("href" :> "javascript:void(0)"), "")

ElementPool == {LinkStylesheet, ScriptJquery, LinkGoogleCss, LinkGstatic, StyleBackground,
                StyleFontFace, ImgSrcset, ImgLazy, ImgLazyNoDot, DivBackground, LinkFavicon,
                MetaOgImage, LinkPreloadJs, ScriptModule, ScriptInline, LinkJavascript}

\* Number of elements of a scanned document.
MaxElems == 2

Bases == {"https://x.test/", "https://x.test/blog/post.html"}

-----------------------------------------------------------------------------
(* Idle values of the parts a specification does not use *)

FunIdle == args = <<>> /\ ret = <<>>

ScanIdle == html = "" /\ soup = <<>> /\ base_url = "" /\ assets = <<>> /\ seen = {}

FlowIdle ==
    /\ request = <<>>
    /\ libraries = <<>>
    /\ todo = <<>>
    /\ fetch_log = <<>>
    /\ results = <<>>
    /\ files = <<>>
    /\ response = <<>>

-----------------------------------------------------------------------------
(* Spec: one run of parse_assets_from_html, a rule at a time *)

Init ==
    /\ pc = RuleNames[1]
    /\ soup \in SeqsUpTo(ElementPool, MaxElems)
    /\ html = Render(soup)
    /\ base_url \in Bases
    /\ assets = <<>>
    /\ seen = {}
    /\ FunIdle
    /\ FlowIdle

\* The k-th rule of the function runs to its end.
ScanRule(k) ==
    /\ pc = RuleNames[k]
    /\ LET st == Run([assets |-> assets, seen |-> seen],
                     RuleCalls(RuleNames[k], html, soup, base_url))
       IN  /\ assets' = st.assets
           /\ seen' = st.seen
    /\ pc' = IF k < Len(RuleNames) THEN RuleNames[k + 1] ELSE "done"
    /\ UNCHANGED <<html, soup, base_url, funVars, flowVars>>

StylesheetLinks == ScanRule(1)
CssHrefLinks == ScanRule(2)
InlineStyles == ScanRule(3)
ScriptSrc == ScanRule(4)
InlineScripts == ScanRule(5)
Images == ScanRule(6)
BackgroundLazy == ScanRule(7)
StyleAttrs == ScanRule(8)
HtmlUrls == ScanRule(9)
FontLinks == ScanRule(10)
GoogleFonts == ScanRule(11)
Favicons == ScanRule(12)
OgImage == ScanRule(13)
PreloadHints == ScanRule(14)

Next ==
    \/ StylesheetLinks
    \/ CssHrefLinks
    \/ InlineStyles
    \/ ScriptSrc
    \/ InlineScripts
    \/ Images
    \/ BackgroundLazy
    \/ StyleAttrs
    \/ HtmlUrls
    \/ FontLinks
    \/ GoogleFonts
    \/ Favicons
    \/ OgImage
    \/ PreloadHints

Spec == Init /\ [][Next]_vars

-----------------------------------------------------------------------------
(* Properties of the scan *)

\* The non-inline records of a list, in order.
RECURSIVE NonInline(_)
NonInline(q) ==
    IF q = <<>> THEN <<>>
    ELSE (IF Head(q).inline THEN <<>> ELSE <<Head(q)>>) \o NonInline(Tail(q))

\* The <<url, tag>> of the add() calls in q that carry a URL.
RECURSIVE Found(_)
Found(q) ==
    IF q = <<>> THEN <<>>
    ELSE (IF Head(q).fn = "add" /\ Truthy(Head(q).url)
          THEN <<[url |-> Head(q).url, tag |-> Head(q).tag]>>
          ELSE <<>>) \o Found(Tail(q))

\* q without the entries whose url an earlier entry has.
RECURSIVE FirstOfEach(_, _)
FirstOfEach(q, had) ==
    IF q = <<>> THEN <<>>
    ELSE IF Head(q).url \in had THEN FirstOfEach(Tail(q), had)
    ELSE <<Head(q)>> \o FirstOfEach(Tail(q), had \cup {Head(q).url})

\* The rule order the specification enumerates for URL-carrying records.
EnumeratedOrder == <<"stylesheet", "css_href", "inline_style", "script_src", "img",
                     "background_lazy", "style_attr", "html_url", "font_link",
                     "google_fonts", "favicon", "og_image", "preload">>

\* Every discovery of a URL in the document, in the enumerated order.
Discoveries ==
    Found(Flatten([k \in 1..Len(EnumeratedOrder) |->
                      RuleCalls(EnumeratedOrder[k], html, soup, base_url)]))

\* C1: at every point of a scan no two non-inline records of the list have the
\* same url, and seen is exactly the set of their urls, so that an add() of a
\* url already inserted changes nothing.
C1_UniqueLocations ==
    LET q == NonInline(assets)
    IN  /\ \A i, j \in 1..Len(q) : i < j => q[i].url # q[j].url
        /\ seen = {q[i].url : i \in 1..Len(q)}

\* A finished scan in which some URL was discovered more than once.
C1_Witness ==
    /\ pc = "done"
    /\ Len(NonInline(assets)) >= 2
    /\ Len(Discoveries) > Len(NonInline(assets))

\* C2: every record made from a <script src> element has category 'js'.
C2_ScriptSrcIsJs ==
    \A i \in 1..Len(assets) : assets[i].tag = "script[src]" => assets[i].type = "js"

\* C3: when the scan is done, the non-inline records are the first discovery
\* of each URL under the enumerated rule order, in that order, each with the
\* origin label of that first discovery.
C3_FirstDiscoveryWins ==
    pc = "done" =>
        LET q == NonInline(assets)
        IN  [i \in 1..Len(q) |-> [url |-> q[i].url, tag |-> q[i].tag]]
                = FirstOfEach(Discoveries, {})

\* A finished scan in which two rules with different labels found one URL.
C3_Witness ==
    /\ pc = "done"
    /\ \E i, j \in 1..Len(Discoveries) :
          /\ i < j
          /\ Discoveries[i].url = Discoveries[j].url
          /\ Discoveries[i].tag # Discoveries[j].tag
          /\ \E k \in 1..Len(assets) :
                assets[k].url = Discoveries[i].url /\ assets[k].tag = Discoveries[i].tag

\* The <link href> elements of the document whose href names a Google Fonts
\* host and resolves to a URL.
GoogleFontsLinks ==
    {i \in 1..Len(soup) :
        /\ soup[i].tag = "link"
        /\ HasAttr(soup[i], "href")
        /\ IsGoogleFontsHref(soup[i].attrs["href"])
        /\ Truthy(resolve_url(soup[i].attrs["href"], base_url))}

\* C8: a <link href> naming a Google Fonts host is tagged distinctly: when the
\* scan is done its record carries the origin label 'Google Fonts'.
C8_GoogleFontsTagged ==
    pc = "done" =>
        \A i \in GoogleFontsLinks :
            \E k \in 1..Len(assets) :
                /\ assets[k].url = resolve_url(soup[i].attrs["href"], base_url)
                /\ assets[k].tag = "Google Fonts"

\* No scan of any document ever yields a record labelled 'Google Fonts': the
\* generic font-link rule, or an earlier one, has always taken the URL.
NoGoogleFontsLabel ==
    \A k \in 1..Len(assets) : assets[k].tag # "Google Fonts"

-----------------------------------------------------------------------------
(* SpecInline: the scan of a document that is one <script> without src *)

\* Longest run of whitespace put before and after a script body.
MaxPad == 2
\* Longest script body without its surrounding whitespace.
MaxBody == 22

Pads == {Repeat(w, n) : w \in {" ", "\n"}, n \in 0..MaxPad}

ScriptBodies == {lead \o Repeat("x", n) \o trail : lead \in Pads, trail \in Pads, n \in 0..MaxBody}

InitInline ==
    /\ pc = RuleNames[1]
    /\ soup \in {<<Element("script", <<>>, body)>> : body \in ScriptBodies}
    /\ html = Render(soup)
    /\ base_url \in Bases
    /\ assets = <<>>
    /\ seen = {}
    /\ FunIdle
    /\ FlowIdle

SpecInline == InitInline /\ [][Next]_vars

HasInlineScript == \E k \in 1..Len(assets) : assets[k].tag = "<script> inline"

\* C4: a <script> without src yields an inline-script record if and only if
\* its body, trimmed of surrounding whitespace, is longer than 20 characters.
C4_IffTrimmedLonger ==
    pc = "done" => (HasInlineScript <=> Len(Strip(soup[1].text)) > MinInlineScript)

\* What the rule does: a record is emitted if and only if the body is not
\* blank and its untrimmed length is greater than 20; the record holds the body
\* cut to the cap and the body's full length.
InlineIffNonBlankAndRawLonger ==
    pc = "done" =>
        LET body == soup[1].text
        IN  /\ HasInlineScript <=> (Strip(body) # "" /\ Len(body) > MinInlineScript)
            /\ \A k \in 1..Len(assets) :
                  /\ assets[k].url = "inline-script-1"
                  /\ assets[k].size = Len(body)
                  /\ assets[k].content = SubSeq(body, 1, Min(Len(body), InlineScriptCap))

\* A record emitted for a body whose trimmed length is 20 or less.
InlineShortBodyEmitted ==
    /\ pc = "done"
    /\ HasInlineScript
    /\ Len(Strip(soup[1].text)) <= MinInlineScript
    /\ Len(Strip(soup[1].text)) > 0

-----------------------------------------------------------------------------
(* SpecResolve: one call of resolve_url *)

\* References without their surrounding whitespace; None is an absent attribute.
RefCores == {"", "data:image/png;base64,AAAA", "javascript:void(0)", "#top",
             "mailto:a@x.test", "/a.css", "a.css", "?v=2", "photo.jpg",
             "//cdn.example.com/jquery.min.js", "https://x.test/a.css",
             "JavaScript:void(0)"}

RefPool == {lead \o core \o trail : lead \in Pads, trail \in Pads, core \in RefCores}
               \cup {None}

InitResolve ==
    /\ pc = "resolve"
    /\ args \in {[href |-> h, base |-> b] : h \in RefPool, b \in Bases}
    /\ ret = None
    /\ ScanIdle
    /\ FlowIdle

ResolveUrl ==
    /\ pc = "resolve"
    /\ ret' = resolve_url(args.href, args.base)
    /\ pc' = "resolved"
    /\ UNCHANGED <<args, scanVars, flowVars>>

SpecResolve == InitResolve /\ [][ResolveUrl]_vars

\* C6: resolve_url returns None for every reference that, trimmed, is empty
\* or begins with 'data:', 'javascript:', '#' or 'mailto:'.
C6_RejectsBlankAndExcluded ==
    pc = "resolved" =>
        LET h == IF args.href = None THEN "" ELSE Strip(args.href)
        IN  (h = "" \/ \E i \in 1..Len(Rejected) : StartsWith(h, Rejected[i]))
                => ret = None

-----------------------------------------------------------------------------
(* SpecClassify: get_asset_type on two URLs that have the same path and    *)
(* the same declared content-type                                          *)

Hosts == {"https://x.test", "HTTPS://X.TEST", "https://cdn.js"}
Paths == {"", "/app.js", "/lib.MJS", "/a.css", "/p.png", "/f.woff2", "/i.html",
          "/d.json", "/x"}
Queries == {"", "?v=1", "?f=a.css"}
Fragments == {"", "#top"}
ContentTypes == {"", "text/css", "application/JavaScript", "image/png", "font/woff2",
                 "text/html"}

InitClassify ==
    /\ pc = "classify"
    /\ args \in {[path |-> p, content_type |-> ct,
                  url1 |-> h1 \o p \o q1 \o f1, url2 |-> h2 \o p \o q2 \o f2] :
                     p \in Paths, ct \in ContentTypes,
                     h1 \in Hosts, q1 \in Queries, f1 \in Fragments,
                     h2 \in Hosts, q2 \in Queries, f2 \in Fragments}
    /\ ret = <<>>
    /\ ScanIdle
    /\ FlowIdle

Classify ==
    /\ pc = "classify"
    /\ ret' = <<get_asset_type(args.url1, args.content_type),
                get_asset_type(args.url2, args.content_type)>>
    /\ pc' = "classified"
    /\ UNCHANGED <<args, scanVars, flowVars>>

SpecClassify == InitClassify /\ [][Classify]_vars

\* The category of the first rule that matches, in the order js, css, img,
\* font, html, json, other, for a lower-cased text p and content-type c.
FirstMatchingRule(p, c) ==
    LET rules == << <<"js",   Contains(c, "javascript") \/ EndsWithAny(p, JsExt)>>,
                    <<"css",  Contains(c, "css") \/ EndsWith(p, ".css")>>,
                    <<"img",  EndsWithAny(p, ImgExt) \/ Contains(c, "image")>>,
                    <<"font", EndsWithAny(p, FontExt) \/ Contains(c, "font")>>,
                    <<"html", EndsWithAny(p, HtmlExt) \/ Contains(c, "html")>>,
                    <<"json", EndsWith(p, ".json")>>,
                    <<"other", TRUE>> >>
        first == CHOOSE i \in 1..Len(rules) :
                    rules[i][2] /\ \A j \in 1..(i - 1) : ~rules[j][2]
    IN  rules[first][1]

\* C5: two URLs with the same path and content-type, differing only in host,
\* query string or fragment, get the same category, the one of the first rule
\* matching the path and content-type, compared case-insensitively.
C5_PathAndTypeDecide ==
    pc = "classified" =>
        /\ ret[1] = ret[2]
        /\ ret[1] = FirstMatchingRule(Lower(args.path), Lower(args.content_type))

\* The text get_asset_type tests extensions on: the URL before its first '?'.
BeforeQuery(url) == SplitFirst(url, "?")

\* What the function does: the category is decided by the URL text before
\* the first '?' (compared case-insensitively, host and fragment included) and
\* by the content-type: URLs that agree on it get the same category, the one of
\* the first rule matching that text.
PrefixAndTypeDecide ==
    pc = "classified" =>
        /\ Lower(BeforeQuery(args.url1)) = Lower(BeforeQuery(args.url2))
              => ret[1] = ret[2]
        /\ ret[1] = FirstMatchingRule(Lower(BeforeQuery(args.url1)), Lower(args.content_type))
        /\ ret[2] = FirstMatchingRule(Lower(BeforeQuery(args.url2)), Lower(args.content_type))

\* Two different URLs that agree before the '?', where two rules match (a
\* .js path declared as CSS) and the earlier one decides.
PrefixDecidesOverQuery ==
    /\ pc = "classified"
    /\ args.url1 # args.url2
    /\ Contains(args.url1, "?f=a.css")
    /\ Lower(BeforeQuery(args.url1)) = Lower(BeforeQuery(args.url2))
    /\ Contains(Lower(args.content_type), "css")
    /\ ret = <<"js", "js">>

-----------------------------------------------------------------------------
(* detect_libraries.  A signature is a sequence of atoms: a literal, one   *)
(* character of a class ([.\-], [@/]), \d+, or an optional literal         *)
(* ((?:min\.)?); group is the range of atoms inside its capturing group,   *)
(* <<>> when it has none.  Matching is re.search with re.IGNORECASE.       *)

\* (s is kept lower-cased: the match is against the lower-cased search text)
Lit(x) == [k |-> "lit", s |-> Lower(x)]
OneOf(x) == [k |-> "set", s |-> Lower(x)]
Num == [k |-> "num", s |-> Digits]
Opt(x) == [k |-> "opt", s |-> Lower(x)]
Sig(atoms, group) == [atoms |-> atoms, group |-> group]

(* The boundaries <<b1, ..., bn+1>> of the atoms k..n of a match of them   *)
(* at position i of s (atom j matches s from bj up to bj+1), <<>> when     *)
(* they do not match there; greedy, with backtracking, as re has it.       *)
RECURSIVE MatchAt(_, _, _, _)
MatchAt(atoms, k, s, i) ==
    IF k > Len(atoms) THEN <<i>>
    ELSE LET a    == atoms[k]
             lit  == a.s
             hit  == i + Len(lit) - 1 <= Len(s) /\ SubSeq(s, i, i + Len(lit) - 1) = lit
             Rest(e) == MatchAt(atoms, k + 1, s, e)
         IN  CASE a.k = "lit" ->
                    IF hit /\ Rest(i + Len(lit)) # <<>> THEN <<i>> \o Rest(i + Len(lit))
                    ELSE <<>>
               [] a.k = "set" ->
                    IF i <= Len(s) /\ Char(s, i) \in CharsOf(a.s) /\ Rest(i + 1) # <<>>
                    THEN <<i>> \o Rest(i + 1)
                    ELSE <<>>
               [] a.k = "num" ->
                    LET top  == IF i > Len(s) THEN i
                                ELSE RunEnd(s, i, CharsOf(s) \ CharsOf(Digits))
                        ends == {e \in (i + 1)..top : Rest(e) # <<>>}
                    IN  IF ends = {} THEN <<>>
                        ELSE <<i>> \o Rest(CHOOSE e \in ends : \A f \in ends : e >= f)
               [] a.k = "opt" ->
                    IF hit /\ Rest(i + Len(lit)) # <<>> THEN <<i>> \o Rest(i + Len(lit))
                    ELSE IF Rest(i) # <<>> THEN <<i>> \o Rest(i)
                    ELSE <<>>

\* re.search(p, search, re.IGNORECASE), given the lower-cased search text:
\* the boundaries of the leftmost match, <<>> when there is none.
Search(sig, low) ==
    LET at == {i \in 1..(Len(low) + 1) : MatchAt(sig.atoms, 1, low, i) # <<>>}
    IN  IF at = {} THEN <<>>
        ELSE MatchAt(sig.atoms, 1, low, CHOOSE i \in at : \A j \in at : i <= j)

\* m.group(1) of a match with boundaries m
Group1(sig, search, m) == SubSeq(search, m[sig.group[1]], m[sig.group[2] + 1] - 1)

(* Entries of the catalogue LIBS (name, signatures); the icon, a constant  *)
(* emoji of the entry, is not carried.                                     *)
LIBS == <<
    [name |-> "D3\\.js",
     patterns |-> << Sig(<<Lit("d3."), Opt("min."), Lit("js")>>, <<>>),
                     Sig(<<Lit("d3"), OneOf("@/"), Lit("v"), Num>>, <<4, 4>>),
                     Sig(<<Lit("d3.select")>>, <<>>) >>],
    [name |-> "jQuery",
     patterns |-> << Sig(<<Lit("jquery"), OneOf(".-"), Num, Lit("."), Num>>, <<3, 5>>),
                     Sig(<<Lit("jquery.min.js")>>, <<>>),
                     Sig(<<Lit("jQuery.fn")>>, <<>>) >>],
    [name |-> "Webpack",
     patterns |-> << Sig(<<Lit("webpackJsonp")>>, <<>>),
                     Sig(<<Lit("webpackChunk")>>, <<>>),
                     Sig(<<Lit("webpack-runtime")>>, <<>>),
                     Sig(<<Lit(".chunk.js")>>, <<>>) >>],
    [name |-> "Google Fonts",
     patterns |-> << Sig(<<Lit("fonts.googleapis.com")>>, <<>>),
                     Sig(<<Lit("fonts.gstatic.com")>>, <<>>) >>],
    [name |-> "Cloudflare",
     patterns |-> << Sig(<<Lit("cdnjs.cloudflare.com")>>, <<>>),
                     Sig(<<Lit("cloudflare.com")>>, <<>>) >>],
    [name |-> "AWS CloudFront",
     patterns |-> << Sig(<<Lit("cloudfront.net")>>, <<>>) >>] >>

\* name.replace('\\.', '.')
RECURSIVE Unescape(_)
Unescape(name) ==
    IF Len(name) < 2 THEN name
    ELSE IF SubSeq(name, 1, 2) = "\\." THEN "." \o Unescape(SubSeq(name, 3, Len(name)))
    ELSE Head(name) \o Unescape(Tail(name))

\* Which of the entry's signatures are found in the search text.
Hits(lib, low) == [p \in 1..Len(lib.patterns) |-> Search(lib.patterns[p], low)]

\* matches = sum(1 for p in patterns if re.search(p, search, re.IGNORECASE))
Matches(hits) == SeqSum([p \in 1..Len(hits) |-> IF hits[p] # <<>> THEN 1 ELSE 0])

\* The version: group 1 of the first signature, in declared order, whose
\* match has a group; 'detected' when there is none (or it is empty).
Version(lib, search, hits) ==
    LET with == IndicesIn([p \in 1..Len(hits) |->
                              hits[p] # <<>> /\ lib.patterns[p].group # <<>>],
                          {TRUE}, 1)
        v    == IF with = <<>> THEN None
                ELSE Group1(lib.patterns[Head(with)], search, hits[Head(with)])
    IN  IF Truthy(v) THEN v ELSE "detected"

\* The body of the loop over LIBS with 'high' given from the first match on
LibFound_always_high(lib, search, low) ==
    LET hits == Hits(lib, low)
    IN  IF Matches(hits) > 0
        THEN <<[name |-> Unescape(lib.name), version |-> Version(lib, search, hits),
                confidence |-> "high"]>>
        ELSE <<>>

\* The body of the loop over LIBS: what one entry adds to found.
LibFound(lib, search, low) ==
    LET hits == Hits(lib, low)
    IN  IF Matches(hits) > 0
        THEN <<[name |-> Unescape(lib.name), version |-> Version(lib, search, hits),
                confidence |-> IF Matches(hits) >= 2 THEN "high" ELSE "medium"]>>
        ELSE <<>>

detect_libraries(text, all_urls) ==
    LET search == text \o "\n" \o Join(all_urls, "\n")
        low    == Lower(search)
    IN  Flatten([i \in 1..Len(LIBS) |-> LibFound(LIBS[i], search, low)])

-----------------------------------------------------------------------------
(* SpecDetect: one call of detect_libraries *)

PageTexts == {"",
              "<script>jQuery.fn.ready()</script>",
              "<script src=\"/JQUERY-3.6.0.slim.js\"></script>",
              "<script>window.webpackJsonp=[];D3.Select('p')</script>",
              "<link href=\"//Fonts.GoogleAPIs.com/css\">"}

DiscoveredUrls == {"https://cdn.example.com/jquery.min.js",
                   "https://cdnjs.cloudflare.com/d3/d3.min.js",
                   "https://unpkg.test/d3@v7",
                   "https://fonts.gstatic.com/s/a.woff2",
                   "https://d1.cloudfront.net/app.chunk.js"}

\* Number of discovered URLs given to the detector.
MaxUrls == 2

InitDetect ==
    /\ pc = "detect"
    /\ args \in {[html |-> h, all_urls |-> u] :
                    h \in PageTexts, u \in SeqsUpTo(DiscoveredUrls, MaxUrls)}
    /\ ret = <<>>
    /\ ScanIdle
    /\ FlowIdle

Detect ==
    /\ pc = "detect"
    /\ ret' = detect_libraries(args.html, args.all_urls)
    /\ pc' = "detected"
    /\ UNCHANGED <<args, scanVars, flowVars>>

SpecDetect == InitDetect /\ [][Detect]_vars

\* The signatures of the entry that match the corpus, case-insensitively.
Matching(lib, corpus) ==
    {p \in 1..Len(lib.patterns) : Search(lib.patterns[p], corpus) # <<>>}

\* C7: with k the number of an entry's signatures that match the corpus, the
\* entry is absent from the output when k = 0 and appears exactly once when
\* k >= 1, with confidence 'high' when k >= 2 and 'medium' when k = 1.
C7_ConfidenceByCount ==
    pc = "detected" =>
        LET corpus == Lower(args.html \o "\n" \o Join(args.all_urls, "\n"))
        IN  \A i \in 1..Len(LIBS) :
                LET k    == Cardinality(Matching(LIBS[i], corpus))
                    hits == {j \in 1..Len(ret) : ret[j].name = Unescape(LIBS[i].name)}
                IN  /\ k = 0 => hits = {}
                    /\ k >= 1 => /\ Cardinality(hits) = 1
                                 /\ \A j \in hits :
                                       ret[j].confidence = IF k >= 2 THEN "high" ELSE "medium"

\* A call that reports one entry 'high' and another 'medium' and leaves a
\* third out.
C7_Witness ==
    /\ pc = "detected"
    /\ \E j \in 1..Len(ret) : ret[j].confidence = "high"
    /\ \E j \in 1..Len(ret) : ret[j].confidence = "medium"
    /\ Len(ret) < Len(LIBS)

-----------------------------------------------------------------------------
(* SpecExtract: the handler of POST /api/extract.  fetch_url is the        *)
(* network: each call ends with a response or with {'ok': False}.          *)

\* content caps of the CSS and the JS fetch loop
CssCap == 50000
JsCap == 100000
\* max_js when the request does not give it
DefaultMaxJs == 10
\* length of the html preview of the response
HtmlPreviewCap == 5000

LinkPreloadVendor == Element("link", ("rel" :> <<"preload">>) @@ ("as" :> "script")
                                @@ ("href" :> "/vendor.js"), "")

\* The pages the network may answer with.
PagePool == {LinkStylesheet, ScriptJquery, ScriptModule, LinkPreloadJs, LinkPreloadVendor,
             StyleBackground}
Pages == SeqsUpTo(PagePool, MaxElems)

\* Largest max_js a request gives.
MaxJsGiven == 2

ExtractRequests ==
    {u @@ f @@ m :
        u \in {("url" :> x) : x \in {"", "x.test ", "https://x.test/"}},
        f \in {<<>>} \cup {("fetch_content" :> b) : b \in BOOLEAN},
        m \in {<<>>} \cup {("max_js" :> n) : n \in 0..MaxJsGiven}}

\* Bodies the network may answer an asset fetch with.
AssetTexts == {"", "a{color:red}"}

InitExtract ==
    /\ pc = "extract"
    /\ request \in ExtractRequests
    /\ libraries = <<>>
    /\ todo = <<>>
    /\ fetch_log = <<>>
    /\ results = <<>>
    /\ files = <<>>
    /\ response = <<>>
    /\ ScanIdle
    /\ FunIdle

\* url after strip() and the 'https://' default
RequestUrl ==
    LET url == Strip(DictGet(request, "url", ""))
    IN  IF StartsWith(url, "http://") \/ StartsWith(url, "https://") THEN url
        ELSE "https://" \o url

\* [a for a in assets if a['type'] == t and not a.get('inline')], as indices
RECURSIVE OfType(_, _, _)
OfType(q, t, i) ==
    IF i > Len(q) THEN <<>>
    ELSE (IF q[i].type = t /\ ~q[i].inline THEN <<i>> ELSE <<>>) \o OfType(q, t, i + 1)

\* q[:n]
Slice(q, n) ==
    IF n >= 0 THEN SubSeq(q, 1, Min(n, Len(q)))
    ELSE SubSeq(q, 1, Len(q) + n)

\* sum(1 for a in assets if a['type'] == t)
CountType(q, t) == Cardinality({i \in 1..Len(q) : q[i].type = t})

Logged(url, outcome) == [url |-> url, outcome |-> outcome]

\* if not url: 400
ExtractNoUrl ==
    /\ pc = "extract"
    /\ Strip(DictGet(request, "url", "")) = ""
    /\ response' = [status |-> 400, error |-> "URL required"]
    /\ pc' = "done"
    /\ UNCHANGED <<funVars, scanVars, request, libraries, todo, fetch_log, results, files>>

\* The page fetch fails: 502
ExtractPageFailed ==
    /\ pc = "extract"
    /\ Strip(DictGet(request, "url", "")) # ""
    /\ fetch_log' = Append(fetch_log, Logged(RequestUrl, "failed"))
    /\ response' = [status |-> 502, error |-> "Failed to fetch " \o RequestUrl]
    /\ pc' = "done"
    /\ UNCHANGED <<funVars, scanVars, request, libraries, todo, results, files>>

\* The urls of the records of q that are not inline, in order.
AllUrls(q) == [i \in 1..Len(NonInline(q)) |-> NonInline(q)[i].url]

\* The page is fetched, scanned and fingerprinted; the fetch lists are made.
ExtractPage ==
    /\ pc = "extract"
    /\ Strip(DictGet(request, "url", "")) # ""
    /\ \E page \in Pages, final_url \in Bases :
          /\ html' = Render(page)
          /\ soup' = page
          /\ base_url' = final_url
    /\ assets' = parse_assets_from_html(html', soup', base_url')
    /\ seen' = {AllUrls(assets')[i] : i \in 1..Len(AllUrls(assets'))}
    /\ libraries' = detect_libraries(html', AllUrls(assets'))
    /\ todo' = IF DictGet(request, "fetch_content", TRUE)
               THEN [css |-> OfType(assets', "css", 1),
                     js  |-> Slice(OfType(assets', "js", 1),
                                   DictGet(request, "max_js", DefaultMaxJs))]
               ELSE [css |-> <<>>, js |-> <<>>]
    /\ fetch_log' = Append(fetch_log, Logged(RequestUrl, "ok"))
    /\ pc' = "fetch"
    /\ UNCHANGED <<funVars, request, results, files, response>>

\* The asset the loops visit next, the CSS list first: its index and its cap.
NextAsset ==
    IF todo.css # <<>> THEN [i |-> Head(todo.css), cap |-> CssCap]
    ELSE [i |-> Head(todo.js), cap |-> JsCap]

Visited == IF todo.css # <<>> THEN [css |-> Tail(todo.css), js |-> todo.js]
           ELSE [css |-> <<>>, js |-> Tail(todo.js)]

\* A content fetch succeeds: content (cut to the cap) and size are set.
FetchAssetOk ==
    /\ pc = "fetch"
    /\ todo.css # <<>> \/ todo.js # <<>>
    /\ \E text \in AssetTexts :
          assets' = [assets EXCEPT ![NextAsset.i] =
                        Update(@, [content |-> SubSeq(text, 1, Min(Len(text), NextAsset.cap)),
                                   size |-> Len(text)])]
    /\ fetch_log' = Append(fetch_log, Logged(assets[NextAsset.i].url, "ok"))
    /\ todo' = Visited
    /\ UNCHANGED <<pc, funVars, html, soup, base_url, seen, request, libraries, results,
                   files, response>>

\* A content fetch fails: fetch_error is set.
FetchAssetFailed ==
    /\ pc = "fetch"
    /\ todo.css # <<>> \/ todo.js # <<>>
    /\ assets' = [assets EXCEPT ![NextAsset.i] = Update(@, [fetch_error |-> "timed out"])]
    /\ fetch_log' = Append(fetch_log, Logged(assets[NextAsset.i].url, "failed"))
    /\ todo' = Visited
    /\ UNCHANGED <<pc, funVars, html, soup, base_url, seen, request, libraries, results,
                   files, response>>

\* return jsonify({...})
ExtractRespond ==
    /\ pc = "fetch"
    /\ todo.css = <<>> /\ todo.js = <<>>
    /\ response' = [status |-> 200, url |-> RequestUrl, final_url |-> base_url,
                    html_size |-> Len(html),
                    html_preview |-> SubSeq(html, 1, Min(Len(html), HtmlPreviewCap)),
                    assets |-> assets, libraries |-> libraries,
                    stats |-> [total |-> Len(assets),
                               html  |-> CountType(assets, "html"),
                               css   |-> CountType(assets, "css"),
                               js    |-> CountType(assets, "js"),
                               img   |-> CountType(assets, "img"),
                               font  |-> CountType(assets, "font"),
                               other |-> CountType(assets, "other")]]
    /\ pc' = "done"
    /\ UNCHANGED <<funVars, scanVars, request, libraries, todo, fetch_log, results, files>>

NextExtract ==
    \/ ExtractNoUrl
    \/ ExtractPageFailed
    \/ ExtractPage
    \/ FetchAssetOk
    \/ FetchAssetFailed
    \/ ExtractRespond

SpecExtract == InitExtract /\ [][NextExtract]_vars

\* The urls of the records of q made by the <script src> rule, in order.
RECURSIVE ScriptUrls(_)
ScriptUrls(q) ==
    IF q = <<>> THEN <<>>
    ELSE (IF Head(q).tag = "script[src]" THEN <<Head(q).url>> ELSE <<>>)
             \o ScriptUrls(Tail(q))

\* The urls of the log q that are in the set S, in order.
RECURSIVE LoggedIn(_, _)
LoggedIn(q, S) ==
    IF q = <<>> THEN <<>>
    ELSE (IF Head(q).url \in S THEN <<Head(q).url>> ELSE <<>>) \o LoggedIn(Tail(q), S)

\* C9: when content fetching is requested with limit N = max_js, the content
\* fetches attempted on external-script records are exactly those of the
\* first min(N, m) of the m records the <script src> rule made, in order.
C9_FirstNScriptsFetched ==
    (pc = "done" /\ response.status = 200 /\ DictGet(request, "fetch_content", TRUE)) =>
        LET scripts == ScriptUrls(response.assets)
            N       == DictGet(request, "max_js", DefaultMaxJs)
        IN  LoggedIn(Tail(fetch_log), {scripts[i] : i \in 1..Len(scripts)})
                = SubSeq(scripts, 1, Min(N, Len(scripts)))

\* In extract, every asset a content fetch was attempted on carries exactly
\* one outcome in the response: content and size, or fetch_error.
ExtractEveryAttemptReported ==
    (pc = "done" /\ response.status = 200) =>
        \A j \in 2..Len(fetch_log) :
            \E k \in 1..Len(response.assets) :
                LET a == response.assets[k]
                IN  /\ a.url = fetch_log[j].url
                    /\ fetch_log[j].outcome = "ok"
                          => {"content", "size"} \subseteq DOMAIN a /\ "fetch_error" \notin DOMAIN a
                    /\ fetch_log[j].outcome = "failed"
                          => "fetch_error" \in DOMAIN a /\ "content" \notin DOMAIN a

-----------------------------------------------------------------------------
(* SpecDownload: the handler of POST /api/download.  fetch_url is the      *)
(* network, open()/write() the file system: either may fail.               *)

\* urlparse(url).path of an absolute URL
UrlPath(url) ==
    LET o    == Origin(url)
        p    == SplitFirst(SplitFirst(SubSeq(url, Len(o) + 1, Len(url)), "#"), "?")
        last == SplitLast(p, "/")
    IN  IF Find(last, ";") = 0 THEN p
        ELSE SubSeq(p, 1, Len(p) - Len(last) + Find(last, ";") - 1)

\* \w, '-', '_' and '.': the characters a file name keeps
SafeChars == CharsOf(UpperLetters) \cup CharsOf(LowerLetters) \cup CharsOf(Digits)
                 \cup {"_", "-", "."}

RECURSIVE Sanitize(_)
\* re.sub(r'[^\w\-_\.]', '_', fname)
Sanitize(fname) ==
    IF fname = "" THEN ""
    ELSE (IF Head(fname) \in SafeChars THEN Head(fname) ELSE "_") \o Sanitize(Tail(fname))

\* os.path.join(folder, <the sanitized base name of the URL's path>)
SavePath(folder, url) ==
    LET base  == SplitLast(UrlPath(url), "/")
        fname == Sanitize(IF base = "" THEN "index.html" ELSE base)
    IN  IF folder = "" THEN fname
        ELSE IF EndsWith(folder, "/") THEN folder \o fname
        ELSE folder \o "/" \o fname

\* The asset records a client may send.
SentAssets == {[url |-> "https://x.test/a.css", type |-> "css", inline |-> FALSE],
               [url |-> "https://x.test/img/b g.png?x=1", type |-> "img", inline |-> FALSE],
               [url |-> "https://x.test/", type |-> "html"],
               [url |-> "inline-style-1", type |-> "css", inline |-> TRUE],
               [type |-> "js"]}

\* Number of asset records in a download request.
MaxSent == 3

InitDownload ==
    /\ pc = "download"
    /\ request \in {("assets" :> q) @@ f :
                       q \in SeqsUpTo(SentAssets, MaxSent),
                       f \in {<<>>, ("folder" :> "out")}}
    /\ libraries = <<>>
    /\ todo = <<>>
    /\ fetch_log = <<>>
    /\ results = <<>>
    /\ files = <<>>
    /\ response = <<>>
    /\ ScanIdle
    /\ FunIdle

\* data.get('folder', f'assets_{int(time.time())}')
Folder == DictGet(request, "folder", "assets_1700000000")

\* os.makedirs(folder, exist_ok=True); results = []
DownloadStart ==
    /\ pc = "download"
    /\ todo' = DictGet(request, "assets", <<>>)
    /\ results' = <<>>
    /\ pc' = "loop"
    /\ UNCHANGED <<funVars, scanVars, request, libraries, fetch_log, files, response>>

\* if a.get('inline') or not a.get('url','').startswith('http'): continue
Skipped(a) == DictGet(a, "inline", FALSE) \/ ~StartsWith(DictGet(a, "url", ""), "http")

DownloadSkip ==
    /\ pc = "loop"
    /\ todo # <<>>
    /\ Skipped(Head(todo))
    /\ todo' = Tail(todo)
    /\ UNCHANGED <<pc, funVars, scanVars, request, libraries, fetch_log, results, files,
                   response>>

\* The fetch succeeds and the file is written: a 'saved' entry.
DownloadSaved ==
    /\ pc = "loop"
    /\ todo # <<>>
    /\ ~Skipped(Head(todo))
    /\ \E text \in AssetTexts :
          LET url   == Head(todo).url
              fpath == SavePath(Folder, url)
          IN  /\ files' = (fpath :> text) @@ files
              /\ results' = Append(results, [url |-> url, saved |-> fpath, size |-> Len(text)])
              /\ fetch_log' = Append(fetch_log, Logged(url, "ok"))
    /\ todo' = Tail(todo)
    /\ UNCHANGED <<pc, funVars, scanVars, request, libraries, response>>

\* The fetch succeeds and open() or write() raises: an 'error' entry.
DownloadWriteFailed ==
    /\ pc = "loop"
    /\ todo # <<>>
    /\ ~Skipped(Head(todo))
    /\ results' = Append(results, [url |-> Head(todo).url, error |-> "Permission denied"])
    /\ fetch_log' = Append(fetch_log, Logged(Head(todo).url, "write failed"))
    /\ todo' = Tail(todo)
    /\ UNCHANGED <<pc, funVars, scanVars, request, libraries, files, response>>

\* The fetch fails: r['ok'] is false, and the loop goes on to the next asset.
DownloadFetchFailed ==
    /\ pc = "loop"
    /\ todo # <<>>
    /\ ~Skipped(Head(todo))
    /\ fetch_log' = Append(fetch_log, Logged(Head(todo).url, "failed"))
    /\ todo' = Tail(todo)
    /\ UNCHANGED <<pc, funVars, scanVars, request, libraries, results, files, response>>

\* return jsonify({'folder': folder, 'results': results, 'count': len(results)})
DownloadRespond ==
    /\ pc = "loop"
    /\ todo = <<>>
    /\ response' = [status |-> 200, folder |-> Folder, results |-> results,
                    count |-> Len(results)]
    /\ pc' = "done"
    /\ UNCHANGED <<funVars, scanVars, request, libraries, todo, fetch_log, results, files>>

NextDownload ==
    \/ DownloadStart
    \/ DownloadSkip
    \/ DownloadSaved
    \/ DownloadWriteFailed
    \/ DownloadFetchFailed
    \/ DownloadRespond

SpecDownload == InitDownload /\ [][NextDownload]_vars

\* C10: every asset a fetch was attempted on has exactly one outcome in the
\* response, a saved path when nothing failed and an annotated error when
\* something did: n attempts with k failures give n-k successes and k errors.
C10_EveryAttemptReported ==
    pc = "done" =>
        /\ Len(response.results) = Len(fetch_log)
        /\ \A j \in 1..Len(fetch_log) :
              /\ j <= Len(response.results)
              /\ response.results[j].url = fetch_log[j].url
              /\ fetch_log[j].outcome = "ok" <=> "saved" \in DOMAIN response.results[j]
              /\ fetch_log[j].outcome # "ok" <=> "error" \in DOMAIN response.results[j]

=============================================================================
